---- MODULE Spec2Model ----
(***************************************************************************)
(* A model of the canvas mirror of the NotPX bot:                          *)
(*   - DynamicCanvasRenderer (bot/core/canvas_updater/                     *)
(*     dynamic_canvas_renderer.py): the RGBA byte buffer and its writers;  *)
(*   - WebSocketManager (bot/core/canvas_updater/websocket_manager.py):    *)
(*     the session pool, connection initialisation, reconnect, failover    *)
(*     and the receive loop.                                               *)
(* The 4,000,000-byte numpy buffer is kept as what it was created from    *)
(* (np.zeros, or the flattening of an image) and the set of bytes written *)
(* since that differ from it; Byte(buf, i) is buf[i] of the code.         *)
(***************************************************************************)
EXTENDS Integers, Sequences, FiniteSets, TLC

VARIABLES
    canvas,           \* DynamicCanvasRenderer._canvas: the flat uint8 buffer
    call,             \* observation: the last canvas operation, its arguments and what it raised
    canvas0,          \* observation: the buffer as it was when that operation started
    sessions,         \* WebSocketManager.sessions: the SessionData objects, in order
    active_session,   \* WebSocketManager.active_session: a session id, 0 for None
    websocket,        \* WebSocketManager.websocket: "None", else the task whose channel it is
    websocket_token,  \* WebSocketManager.websocket_token: 0 for None, else the session it was fetched for
    running,          \* WebSocketManager._running
    refresh_task,     \* WebSocketManager._refresh_task: "none", "pending", "cancelled"
    lock,             \* WebSocketManager._lock: "free", else the task holding it
    chan,             \* per task: the channel of its `async with session.ws_connect(...)`
    pc,               \* per task: the await its call into the manager is suspended at
    attempts,         \* per task: the `attempts` argument of the retrying coroutine it is in
    req,              \* per task: the session whose headers its pending token request carries
    tried,            \* observation, per task: failovers of its call since a channel last streamed
    outcome,          \* observation, per task: how its last call into the manager ended
    rxlog,            \* observation: what the receive loop did with each frame, in order
    sw,               \* observation: the last _switch_to_next_session call
    expiry,           \* observation: the last _is_token_expired call, its inputs and its result
    bot,              \* NotPXBot: its charges and template, and where its _paint_pixels call is
    guard,            \* DynamicCanvasRenderer._lock: its holder, and where each task is with it
    runner            \* NotPXBot.run: where the per-account loop is, and what it has done

cvars == <<canvas, call, canvas0>>
mvars == <<sessions, active_session, websocket, websocket_token, running, refresh_task, lock>>
tvars == <<chan, pc, attempts, req, tried, outcome>>
ovars == <<rxlog, sw, expiry, bot, guard, runner>>
vars == <<cvars, mvars, tvars, ovars>>

----------------------------------------------------------------------------
(* Bounds of the model *)

\* How many canvas operations one behaviour of SpecCanvas performs.
MaxCanvasOps == 2

\* How many sessions are added, how many failovers one call goes through, how
\* many frames the channel delivers.
MaxSessions == 3
MaxFailovers == 2
MaxFrames == 1

\* How many minutes the clock of the expiry checks runs over.
MaxClock == 4

\* The most charges the status response grants the bot.
MaxCharges == 5

\* How many passes of the per-account loop are followed.
MaxPasses == 6

----------------------------------------------------------------------------
(* DynamicCanvasRenderer: constants *)

CANVAS_SIZE == 1000
DYNAMITE_SIZE == 5
PUMPKIN_SIZE == 7

Hex(a, b, c, d, e, f) == <<"#", a, b, c, d, e, f>>

DYNAMITE_COLOR == Hex("1", "7", "1", "F", "2", "A")

PumpkinA == Hex("f", "f", "8", "6", "0", "0")
PumpkinB == Hex("f", "f", "1", "6", "0", "0")
PumpkinC == Hex("f", "d", "b", "f", "1", "3")

PUMPKIN_COLORS ==
    <<PumpkinA, PumpkinB, PumpkinA, PumpkinB, PumpkinA, PumpkinB, PumpkinA,
      PumpkinB, PumpkinA, PumpkinB, PumpkinC, PumpkinB, PumpkinA, PumpkinB,
      PumpkinA, PumpkinB, PumpkinC, PumpkinB, PumpkinC, PumpkinB, PumpkinA,
      PumpkinB, PumpkinC, PumpkinB, PumpkinC, PumpkinB, PumpkinC, PumpkinB,
      PumpkinA, PumpkinB, PumpkinC, PumpkinB, PumpkinC, PumpkinB, PumpkinA,
      PumpkinB, PumpkinA, PumpkinB, PumpkinC, PumpkinB, PumpkinA, PumpkinB,
      PumpkinA, PumpkinB, PumpkinA, PumpkinB, PumpkinA, PumpkinB, PumpkinA>>

NPixels == CANVAS_SIZE * CANVAS_SIZE

----------------------------------------------------------------------------
(* Pixel codec *)

\* int(c, 16) of one character; -1 stands for ValueError.
HexDigit(c) ==
    CASE c = "0" -> 0  [] c = "1" -> 1  [] c = "2" -> 2  [] c = "3" -> 3
      [] c = "4" -> 4  [] c = "5" -> 5  [] c = "6" -> 6  [] c = "7" -> 7
      [] c = "8" -> 8  [] c = "9" -> 9
      [] c \in {"a", "A"} -> 10  [] c \in {"b", "B"} -> 11
      [] c \in {"c", "C"} -> 12  [] c \in {"d", "D"} -> 13
      [] c \in {"e", "E"} -> 14  [] c \in {"f", "F"} -> 15
      [] OTHER -> -1

\* s[lo:hi] of Python: the slice is clipped to the string, never an error.
PySlice(s, lo, hi) ==
    LET top == IF hi < Len(s) THEN hi ELSE Len(s)
    IN  IF lo >= top THEN <<>> ELSE [k \in 1..(top - lo) |-> s[lo + k]]

\* int(s, 16) for a slice of at most two characters; -1 stands for ValueError
\* (an empty slice, or a character that is no hex digit).
ParseInt16(s) ==
    IF Len(s) = 0 \/ \E k \in 1..Len(s) : HexDigit(s[k]) < 0 THEN -1
    ELSE IF Len(s) = 1 THEN HexDigit(s[1])
    ELSE 16 * HexDigit(s[1]) + HexDigit(s[2])

\* tuple(int(hex_color[i : i + 2], 16) for i in (1, 3, 5))
_hex_to_rgb(hex_color) ==
    LET r == ParseInt16(PySlice(hex_color, 1, 3))
        g == ParseInt16(PySlice(hex_color, 3, 5))
        b == ParseInt16(PySlice(hex_color, 5, 7))
    IN  IF r < 0 \/ g < 0 \/ b < 0
        THEN [ok |-> FALSE, rgb |-> <<>>]
        ELSE [ok |-> TRUE, rgb |-> <<r, g, b>>]

_pixel_id_to_xy(pixel_id) ==
    <<(pixel_id - 1) % CANVAS_SIZE, (pixel_id - 1) \div CANVAS_SIZE>>

\* The id computed 0-based, without the + 1.
_xy_to_pixel_id_ZeroBased(x, y) == y * CANVAS_SIZE + x

_xy_to_pixel_id(x, y) == y * CANVAS_SIZE + x + 1

\* One digit of the format {:02X}.
HexChar(n) ==
    CASE n = 0 -> "0"  [] n = 1 -> "1"  [] n = 2 -> "2"  [] n = 3 -> "3"
      [] n = 4 -> "4"  [] n = 5 -> "5"  [] n = 6 -> "6"  [] n = 7 -> "7"
      [] n = 8 -> "8"  [] n = 9 -> "9"  [] n = 10 -> "A" [] n = 11 -> "B"
      [] n = 12 -> "C" [] n = 13 -> "D" [] n = 14 -> "E" [] n = 15 -> "F"

\* f"#{r:02X}{g:02X}{b:02X}": the alpha is dropped.
rgba_to_hex(rgba) ==
    Hex(HexChar(rgba[1] \div 16), HexChar(rgba[1] % 16),
        HexChar(rgba[2] \div 16), HexChar(rgba[2] % 16),
        HexChar(rgba[3] \div 16), HexChar(rgba[3] % 16))

----------------------------------------------------------------------------
(* The buffer and its writes *)

\* An image as PIL decodes it: its mode, its size and its pixels by (x, y),
\* 0-based. ok = FALSE is a byte string Image.open cannot identify. The kind
\* "zeros" is no image: it describes the buffer np.zeros creates.
ImagePixel(img, x, y) ==
    IF img.kind \in {"solid", "zeros"} THEN img.colour
    ELSE <<x % 256, y % 256, (x + y) % 256>> \o (IF img.mode = "RGBA" THEN <<128>> ELSE <<>>)

\* Image.convert("RGBA") of one pixel: an RGB pixel gets alpha 255.
ConvertRGBA(px) == IF Len(px) = 3 THEN px \o <<255>> ELSE px

\* Byte i (0-based) of np.array(canvas).flatten(): shape (h, w, 4), row-major.
FlatByte(img, i) ==
    LET y == i \div (img.w * 4)
        x == (i % (img.w * 4)) \div 4
    IN  ConvertRGBA(ImagePixel(img, x, y))[(i % 4) + 1]

FlatLen(img) == img.w * img.h * 4

\* np.zeros(CANVAS_SIZE * CANVAS_SIZE * 4, dtype=np.uint8)
ZeroCanvas ==
    [base |-> [ok |-> TRUE, kind |-> "zeros", mode |-> "RGBA", w |-> CANVAS_SIZE,
               h |-> CANVAS_SIZE, colour |-> <<0, 0, 0, 0>>],
     ov |-> {}]

\* len(buf) and buf[i] for 0 <= i < len(buf)
BufLen(buf) == FlatLen(buf.base)

Byte(buf, i) ==
    IF \E p \in buf.ov : p[1] = i
    THEN (CHOOSE p \in buf.ov : p[1] = i)[2]
    ELSE FlatByte(buf.base, i)

\* The RGBA of pixel p (0-based linear position) of a buffer.
PixelAt(buf, p) ==
    <<Byte(buf, 4 * p), Byte(buf, 4 * p + 1), Byte(buf, 4 * p + 2), Byte(buf, 4 * p + 3)>>

\* buf with byte j (0 <= j < len) set to v; a byte equal to the one the buffer
\* was created with is not kept in ov, so equal buffers are equal values.
Store(buf, j, v) ==
    LET rest == {p \in buf.ov : p[1] # j}
    IN  [buf EXCEPT !.ov = IF v = FlatByte(buf.base, j) THEN rest ELSE rest \cup {<<j, v>>}]

\* buf[i] = v of numpy on a 1-D array: a negative index counts from the end,
\* an index outside [-len, len) raises IndexError and writes nothing.
SetItem(buf, i, v) ==
    IF i >= 0 /\ i < BufLen(buf)
    THEN [buf |-> Store(buf, i, v), raised |-> "none"]
    ELSE IF i < 0 /\ i >= -BufLen(buf)
    THEN [buf |-> Store(buf, BufLen(buf) + i, v), raised |-> "none"]
    ELSE [buf |-> buf, raised |-> "IndexError"]

\* The four assignments canvas[pixel_index + k] = ..., in the order of the
\* code; the first one that raises ends them.
WritePixel(buf, pixel_index, rgb) ==
    LET w0 == SetItem(buf, pixel_index, rgb[1])
        w1 == SetItem(w0.buf, pixel_index + 1, rgb[2])
        w2 == SetItem(w1.buf, pixel_index + 2, rgb[3])
        w3 == SetItem(w2.buf, pixel_index + 3, 255)
    IN  IF w0.raised # "none" THEN w0
        ELSE IF w1.raised # "none" THEN w1
        ELSE IF w2.raised # "none" THEN w2
        ELSE w3

\* The loop body of _paint_pixels for one pixel id of a colour group.
PaintOnePixel(buf, hex_color, pixel_id) ==
    IF pixel_id > CANVAS_SIZE * CANVAS_SIZE
    THEN [buf |-> buf, raised |-> "none"]
    ELSE LET rgb_color == _hex_to_rgb(hex_color)
         IN  IF ~rgb_color.ok
             THEN [buf |-> buf, raised |-> "ValueError"]
             ELSE WritePixel(buf, (pixel_id - 1) * 4, rgb_color.rgb)

RECURSIVE PaintIds(_, _, _, _)
\* for pixel_id in pixels_id: ... from position k on
PaintIds(buf, hex_color, pixels_id, k) ==
    IF k > Len(pixels_id) THEN [buf |-> buf, raised |-> "none"]
    ELSE LET one == PaintOnePixel(buf, hex_color, pixels_id[k])
         IN  IF one.raised # "none" THEN one
             ELSE PaintIds(one.buf, hex_color, pixels_id, k + 1)

RECURSIVE PaintGroups_NoSkip(_, _, _)
\* The colour loop without the test for "#171F2A": every group is painted.
PaintGroups_NoSkip(buf, pixels_data, g) ==
    IF g > Len(pixels_data) THEN [buf |-> buf, raised |-> "none"]
    ELSE LET grp == PaintIds(buf, pixels_data[g][1], pixels_data[g][2], 1)
         IN  IF grp.raised # "none" THEN grp
             ELSE PaintGroups_NoSkip(grp.buf, pixels_data, g + 1)

RECURSIVE PaintGroups(_, _, _)
\* for hex_color, pixels_id in pixels_data.items(): ... from group g on.
\* A dict keeps insertion order: pixels_data is a sequence of <<colour, ids>>.
PaintGroups(buf, pixels_data, g) ==
    IF g > Len(pixels_data) THEN [buf |-> buf, raised |-> "none"]
    ELSE IF pixels_data[g][1] = Hex("1", "7", "1", "F", "2", "A")
    THEN PaintGroups(buf, pixels_data, g + 1)
    ELSE LET grp == PaintIds(buf, pixels_data[g][1], pixels_data[g][2], 1)
         IN  IF grp.raised # "none" THEN grp
             ELSE PaintGroups(grp.buf, pixels_data, g + 1)

_paint_pixels(canvas_array, pixels_data) == PaintGroups(canvas_array, pixels_data, 1)

\* getattr(self, f"{type.upper()}_SIZE"); 0 stands for AttributeError.
StampSize(type) ==
    CASE type \in {"Pumpkin", "pumpkin"} -> PUMPKIN_SIZE
      [] type \in {"Dynamite", "dynamite"} -> DYNAMITE_SIZE
      [] OTHER -> 0

\* PUMPKIN_COLORS if type == "Pumpkin" else [DYNAMITE_COLOR] * (DYNAMITE_SIZE * DYNAMITE_SIZE)
StampColors(type) ==
    IF type = "Pumpkin" THEN PUMPKIN_COLORS
    ELSE [i \in 1..(DYNAMITE_SIZE * DYNAMITE_SIZE) |-> DYNAMITE_COLOR]

RECURSIVE PaintCells(_, _, _, _, _)
\* for i, color in enumerate(colors): ... from cell i (0-based) on
PaintCells(buf, x, y, colors, i) ==
    IF i >= Len(colors) THEN [buf |-> buf, raised |-> "none"]
    ELSE LET px == x + (i % CANVAS_SIZE)
             py == y + (i \div CANVAS_SIZE)
             rgb_color == _hex_to_rgb(colors[i + 1])
             pixel_index == (px + py * CANVAS_SIZE) * 4
             one == IF ~rgb_color.ok
                    THEN [buf |-> buf, raised |-> "ValueError"]
                    ELSE WritePixel(buf, pixel_index, rgb_color.rgb)
         IN  IF one.raised # "none" THEN one
             ELSE PaintCells(one.buf, x, y, colors, i + 1)

\* The loop body of _paint_squares for one entry {"pixel": id, "type": t}.
PaintOneSquare(buf, pixel_data) ==
    IF pixel_data.pixel > CANVAS_SIZE * CANVAS_SIZE
    THEN [buf |-> buf, raised |-> "none"]
    ELSE IF StampSize(pixel_data.type) = 0
    THEN [buf |-> buf, raised |-> "AttributeError"]
    ELSE LET xy == _pixel_id_to_xy(pixel_data.pixel)
             x == xy[1] - (StampSize(pixel_data.type) \div 2)
             y == xy[2] - (StampSize(pixel_data.type) \div 2)
         IN  PaintCells(buf, x, y, StampColors(pixel_data.type), 0)

RECURSIVE PaintSquares(_, _, _)
\* for pixel_data in pixels_data: ... from entry k on
PaintSquares(buf, pixels_data, k) ==
    IF k > Len(pixels_data) THEN [buf |-> buf, raised |-> "none"]
    ELSE LET one == PaintOneSquare(buf, pixels_data[k])
         IN  IF one.raised # "none" THEN one
             ELSE PaintSquares(one.buf, pixels_data, k + 1)

_paint_squares(canvas_array, pixels_data) == PaintSquares(canvas_array, pixels_data, 1)

\* update_canvas: the dispatch on the channel of the decoded message. The
\* writers work in place on the buffer, so what they wrote before raising stays.
update_canvas(buf, pixels_data) ==
    IF pixels_data.channel = "event:message"
    THEN _paint_squares(buf, pixels_data.data)
    ELSE IF pixels_data.channel = "pixel:message"
    THEN _paint_pixels(buf, pixels_data.data)
    ELSE [buf |-> buf, raised |-> "none"]

\* set_pixel: the early return is taken before the colour is parsed.
set_pixel(buf, pixel_id, hex_color) ==
    IF pixel_id > CANVAS_SIZE * CANVAS_SIZE
    THEN [buf |-> buf, raised |-> "none"]
    ELSE LET rgb_color == _hex_to_rgb(hex_color)
         IN  IF ~rgb_color.ok
             THEN [buf |-> buf, raised |-> "ValueError"]
             ELSE WritePixel(buf, (pixel_id - 1) * 4, rgb_color.rgb)

\* set_canvas that writes the image under the bytes painted before instead
\* of replacing the buffer.
set_canvas_KeepPainted(buf, img) ==
    IF ~img.ok THEN [buf |-> buf, raised |-> "UnidentifiedImageError"]
    ELSE [buf |-> [base |-> img, ov |-> buf.ov], raised |-> "none"]

\* set_canvas: decode, convert, flatten, replace the buffer.
set_canvas(buf, img) ==
    IF ~img.ok THEN [buf |-> buf, raised |-> "UnidentifiedImageError"]
    ELSE [buf |-> [base |-> img, ov |-> {}], raised |-> "none"]

\* get_canvas
get_canvas == canvas

----------------------------------------------------------------------------
(* Inputs of the canvas operations *)

Red == Hex("F", "F", "0", "0", "0", "0")
Green == Hex("0", "0", "f", "f", "0", "0")
Malformed == Hex("G", "G", "0", "0", "0", "0")

HexColors == {Red, Green, DYNAMITE_COLOR, Malformed}

\* (id, colour) pairs of set_pixel calls and of one-pixel colour groups.
PixelWrites ==
    {<<i, Red>> : i \in {-NPixels, 1 - NPixels, -1, 0, 1, 2, NPixels, NPixels + 1, NPixels + 2}}
    \cup {<<i, c>> : i \in {0, 1, NPixels + 1}, c \in {Green, DYNAMITE_COLOR, Malformed}}

PixelEvents ==
    {[channel |-> "pixel:message", data |-> <<<<w[2], <<w[1]>>>>>>] : w \in PixelWrites}
    \cup {[channel |-> "pixel:message", data |-> <<<<Red, <<1, i>>>>, <<c, <<2>>>>>>] :
            c \in {Green, Malformed, DYNAMITE_COLOR}, i \in {0, NPixels + 1}}

SquareEvents ==
    {[channel |-> "event:message", data |-> <<[pixel |-> i, type |-> t]>>] :
        i \in {1, (NPixels \div 2) + (CANVAS_SIZE \div 2), NPixels, NPixels + 1},
        t \in {"Pumpkin", "Dynamite", "Bomb"}}

Events == PixelEvents \cup SquareEvents \cup {[channel |-> "other", data |-> <<>>]}

Images ==
    {[ok |-> TRUE, kind |-> "solid", mode |-> "RGBA", w |-> CANVAS_SIZE, h |-> CANVAS_SIZE,
      colour |-> <<0, 0, 0, 255>>],
     [ok |-> TRUE, kind |-> "gradient", mode |-> "RGB", w |-> CANVAS_SIZE, h |-> CANVAS_SIZE,
      colour |-> <<>>],
     [ok |-> TRUE, kind |-> "gradient", mode |-> "RGBA", w |-> 2, h |-> 3, colour |-> <<>>],
     [ok |-> FALSE, kind |-> "solid", mode |-> "RGBA", w |-> 0, h |-> 0, colour |-> <<>>]}

----------------------------------------------------------------------------
(* The canvas operations as actions. Each runs under DynamicCanvasRenderer._lock
   and has no suspension point inside, so each is one step. *)

NoCall == [op |-> "none", arg |-> <<>>, raised |-> "none", n |-> 0]

CanvasInit ==
    /\ canvas = ZeroCanvas
    /\ call = NoCall
    /\ canvas0 = ZeroCanvas

Apply(op, arg, res) ==
    /\ call.n < MaxCanvasOps
    /\ canvas' = res.buf
    /\ canvas0' = canvas
    /\ call' = [op |-> op, arg |-> arg, raised |-> res.raised, n |-> call.n + 1]
    /\ UNCHANGED <<mvars, tvars, ovars>>

SetPixel ==
    \E w \in PixelWrites :
        Apply("set_pixel", w, set_pixel(canvas, w[1], w[2]))

UpdateCanvas ==
    \E pixels_data \in Events :
        Apply("update_canvas", pixels_data, update_canvas(canvas, pixels_data))

SetCanvas ==
    \E img \in Images :
        Apply("set_canvas", img, set_canvas(canvas, img))

CanvasNext == SetPixel \/ UpdateCanvas \/ SetCanvas

----------------------------------------------------------------------------
(* WebSocketManager: constants and pure parts *)

MAX_RECONNECT_ATTEMPTS == 3

\* The tasks inside the manager. add_session holds _lock until its
\* _activate_session returns, and that is when connection initialisation ends,
\* so the calls into the manager run one at a time: one task, the caller,
\* is inside add_session, _activate_session or _switch_to_next_session.
Tasks == {"caller"}

\* The credentials add_session is called with (notpx_headers, websocket_headers,
\* image_notpx_headers and the HTTP session of one account), by account. The
\* manager stores them and never compares them. Each account's bot calls
\* add_session on every pass of its main loop.
Accounts == {"account1", "account2"}

\* A deployment with a single account.
OneAccount == {"account1"}

\* uuid4().hex of SessionData.create: an id no earlier session has. Sessions
\* are never removed, so the next position in the list is fresh.
NewSessionId(ss) == Len(ss) + 1

SessionIds(ss) == {ss[k].id : k \in DOMAIN ss}

\* A manager that leaves the previous session marked active.
Deactivate_Never(ss, act) == ss

\* if self.active_session: self.active_session.active = False
Deactivate(ss, act) ==
    [k \in DOMAIN ss |->
        IF act # 0 /\ ss[k].id = act THEN [ss[k] EXCEPT !.active = FALSE] ELSE ss[k]]

\* _activate_session, the session objects after it: the previous active
\* session is deactivated, then session s is marked active.
_activate_session(ss, act, s) ==
    LET d == Deactivate(ss, act)
    IN  [k \in DOMAIN d |-> IF d[k].id = s THEN [d[k] EXCEPT !.active = TRUE] ELSE d[k]]

\* next((i for i, s in enumerate(self.sessions) if s.id == self.active_session.id), -1)
\* if self.active_session else -1
CurrentIndex(ss, act) ==
    IF act = 0 \/ ~\E k \in DOMAIN ss : ss[k].id = act THEN -1
    ELSE (CHOOSE k \in DOMAIN ss :
            /\ ss[k].id = act
            /\ \A j \in DOMAIN ss : ss[j].id = act => k <= j) - 1

\* A manager that forgets the + 1.
NextIndex_Same(ss, act) == CurrentIndex(ss, act) % Len(ss)

\* next_index = (current_index + 1) % len(self.sessions), for a pool that is not empty
NextIndex(ss, act) == (CurrentIndex(ss, act) + 1) % Len(ss)

\* _switch_to_next_session up to its call of _activate_session: what it raises,
\* or the session it activates.
SwitchTarget(ss, act) ==
    IF Len(ss) = 0 THEN [raised |-> TRUE, next |-> 0]
    ELSE IF NextIndex(ss, act) = CurrentIndex(ss, act) THEN [raised |-> TRUE, next |-> 0]
    ELSE [raised |-> FALSE, next |-> ss[NextIndex(ss, act) + 1].id]

\* _get_image: checks that a session is active (one always is on this path) and
\* does nothing else; the canvas buffer is what it was.
_get_image(buf) == buf

\* _handle_image: does nothing with the decoded message.
_handle_image(buf, message) == buf

\* stop(): the refresh task is cancelled if it is pending ...
StopRefresh(rt) == IF rt = "pending" THEN "cancelled" ELSE rt

\* A stop() that leaves the channel as it is.
StopChannel_Kept(ch, ws) == ch

\* ... and the channel self.websocket refers to is closed.
StopChannel(ch, ws) == IF ws # "None" THEN [ch EXCEPT ![ws] = "closed"] ELSE ch

----------------------------------------------------------------------------
(* Frames and the decoder *)

RedAtOne == [channel |-> "pixel:message", data |-> <<<<Red, <<1>>>>>>]
PumpkinAtCentre ==
    [channel |-> "event:message",
     data |-> <<[pixel |-> (NPixels \div 2) + (CANVAS_SIZE \div 2), type |-> "Pumpkin"]>>]

\* The frames the channel delivers: the keep-alive byte, a control frame, a
\* frame the decoder prints nothing for, one it fails on, and pushes of events.
Frames ==
    {[kind |-> k, event |-> <<>>] : k \in {"ping", "control", "silent", "garbage"}}
    \cup {[kind |-> "push", event |-> e] : e \in {RedAtOne, PumpkinAtCentre}}

\* centrifuge.js on one frame: what it writes to stdout and whether it writes
\* to stderr. The keep-alive byte and control frames decode to null.
Decode(f) ==
    CASE f.kind = "garbage" -> [stdout |-> "", stderr |-> TRUE, event |-> <<>>]
      [] f.kind = "silent" -> [stdout |-> "", stderr |-> FALSE, event |-> <<>>]
      [] f.kind \in {"ping", "control"} -> [stdout |-> "null", stderr |-> FALSE, event |-> <<>>]
      [] OTHER -> [stdout |-> "json", stderr |-> FALSE, event |-> f.event]

\* What _decode_websocket_message and _handle_websocket_message do with one
\* frame: every frame goes to the decoder; stderr raises; "null" is answered
\* with one zero byte; any other output goes to _handle_image.
HandleFrame(f) ==
    LET d == Decode(f)
    IN  [frame |-> f,
         decoded |-> TRUE,
         raised |-> d.stderr,
         sent |-> IF ~d.stderr /\ d.stdout = "null" THEN <<"\\x00">> ELSE <<>>,
         image |-> ~d.stderr /\ d.stdout \notin {"", "null"}]

----------------------------------------------------------------------------
(* Tokens and the expiry check *)

\* timedelta(minutes=5), in seconds
EXPIRY_MARGIN == 300

\* What self.websocket_token can hold, by what jwt.decode makes of it: no
\* token (None), a string that is no JWT, a JWT whose payload has no "exp", one
\* whose "exp" is no number, and a JWT with "exp" in seconds since the epoch.
NoToken == [kind |-> "none", exp |-> 0]

Nows == {60 * k : k \in 0..MaxClock}

ExpiryOffsets == {-60, 0, 60, EXPIRY_MARGIN - 1, EXPIRY_MARGIN, EXPIRY_MARGIN + 1, 3600}

Tokens ==
    {NoToken} \cup {[kind |-> k, exp |-> 0] : k \in {"malformed", "noexp", "textexp"}}
    \cup {[kind |-> "jwt", exp |-> n + d] :
            n \in Nows, d \in ExpiryOffsets}

\* A check that takes a token expiring exactly at the margin for valid.
_is_token_expired_Strict(token, now) ==
    CASE token.kind \in {"none", "malformed"} -> [expired |-> TRUE, raised |-> "none"]
      [] token.kind = "noexp" -> [expired |-> FALSE, raised |-> "KeyError"]
      [] token.kind = "textexp" -> [expired |-> FALSE, raised |-> "TypeError"]
      [] OTHER -> [expired |-> now + EXPIRY_MARGIN > token.exp, raised |-> "none"]

\* _is_token_expired at time now (seconds): no token is expired; a token
\* jwt.decode rejects (InvalidTokenError) is expired; payload["exp"] of a
\* payload without it raises KeyError and datetime.fromtimestamp of a value
\* that is no number raises TypeError, neither of which is caught; else
\* datetime.now() + timedelta(minutes=5) >= exp_time.
_is_token_expired(token, now) ==
    CASE token.kind \in {"none", "malformed"} -> [expired |-> TRUE, raised |-> "none"]
      [] token.kind = "noexp" -> [expired |-> FALSE, raised |-> "KeyError"]
      [] token.kind = "textexp" -> [expired |-> FALSE, raised |-> "TypeError"]
      [] OTHER -> [expired |-> now + EXPIRY_MARGIN >= token.exp, raised |-> "none"]

\* The tasks that call the canvas operations: the receive loop of the manager
\* and the painter of a bot.
CanvasTasks == {"receiver", "painter"}

\* asyncio.Lock() of DynamicCanvasRenderer.__init__, with no task at it.
GuardFree == [holder |-> "free", at |-> [t \in CanvasTasks |-> [pc |-> "out", op |-> "none"]]]

\* NotPXBot before run is called.
NotRunning == [pc |-> "created", proxy |-> FALSE, passes |-> 0, mains |-> 0, errors |-> 0]

\* NotPXBot before _paint_pixels is called.
BotIdle == [pc |-> "idle"]

NoExpiryCheck ==
    [token |-> NoToken, now |-> 0, expired |-> FALSE, raised |-> "none", n |-> 0]

\* _is_token_expired called with the manager holding token, at time now.
IsTokenExpired ==
    \E token \in Tokens, now \in Nows :
        /\ expiry' = [token |-> token, now |-> now,
                      expired |-> _is_token_expired(token, now).expired,
                      raised |-> _is_token_expired(token, now).raised, n |-> 1]
        /\ UNCHANGED <<cvars, mvars, tvars, rxlog, sw, bot, guard, runner>>

----------------------------------------------------------------------------
(* The manager *)

NoSwitch == [n |-> 0, from |-> -1, to |-> -1, raised |-> FALSE, k |-> 0]

\* The record of a _switch_to_next_session call on pool ss with active session act.
Switched(ss, act) ==
    [n |-> Len(ss),
     from |-> CurrentIndex(ss, act),
     to |-> IF SwitchTarget(ss, act).raised THEN -1 ELSE NextIndex(ss, act),
     raised |-> SwitchTarget(ss, act).raised,
     k |-> 1 - sw.k]

ManagerInit ==
    /\ sessions = <<>>
    /\ active_session = 0
    /\ websocket = "None"
    /\ websocket_token = 0
    /\ running = FALSE
    /\ refresh_task = "none"
    /\ lock = "free"
    /\ chan = [t \in Tasks |-> "none"]
    /\ pc = [t \in Tasks |-> "idle"]
    /\ attempts = [t \in Tasks |-> 0]
    /\ req = [t \in Tasks |-> 0]
    /\ tried = [t \in Tasks |-> 0]
    /\ outcome = [t \in Tasks |-> "none"]
    /\ rxlog = <<>>
    /\ sw = NoSwitch
    /\ expiry = NoExpiryCheck
    /\ bot = BotIdle
    /\ guard = GuardFree
    /\ runner = NotRunning

Init == CanvasInit /\ ManagerInit

\* _initialize_connection up to its first suspension, for active session act:
\* without a token it awaits the token request; with one it passes _get_image
\* and awaits ws_connect.
\* held is self.websocket_token as the call finds it.
InitStartWith(t, act, held) ==
    /\ pc' = [pc EXCEPT ![t] = IF held = 0 THEN "token" ELSE "connect"]
    /\ attempts' = [attempts EXCEPT ![t] = 1]
    /\ req' = [req EXCEPT ![t] = IF held = 0 THEN act ELSE 0]
    /\ canvas' = IF held = 0 THEN canvas ELSE _get_image(canvas)
    /\ UNCHANGED <<call, canvas0>>

InitStart(t, act) == InitStartWith(t, act, websocket_token)

\* _activate_session(s) by task t, on the session list ss, the manager
\* holding token held.
ActivateWith(t, ss, s, held) ==
    /\ sessions' = _activate_session(ss, active_session, s)
    /\ active_session' = s
    /\ running' = TRUE
    /\ InitStartWith(t, s, held)

Activate(t, ss, s) == ActivateWith(t, ss, s, websocket_token)

\* The call of task t ends by raising exc to its caller; add_session's
\* `async with self._lock` releases the lock on the way out.
Raise(t, exc) ==
    /\ pc' = [pc EXCEPT ![t] = "idle"]
    /\ outcome' = [outcome EXCEPT ![t] = exc]
    /\ lock' = IF lock = t THEN "free" ELSE lock
    /\ attempts' = [attempts EXCEPT ![t] = 0]
    /\ req' = [req EXCEPT ![t] = 0]
    /\ tried' = [tried EXCEPT ![t] = 0]

\* add_session with parameters that fail _validate_session_params.
AddSessionInvalid(t) ==
    /\ pc[t] = "idle"
    /\ lock = "free"
    /\ outcome[t] # "ValueError"
    /\ outcome' = [outcome EXCEPT ![t] = "ValueError"]
    /\ UNCHANGED <<cvars, mvars, chan, pc, attempts, req, tried, ovars>>

\* add_session by the bot of one of accounts while no session is active: under
\* the lock, append and activate the session; the caller stays in
\* _activate_session, holding the lock.
AddSessionFrom(t, accounts) ==
    /\ pc[t] = "idle"
    /\ lock = "free"
    /\ Len(sessions) < MaxSessions
    /\ active_session = 0
    /\ \E headers \in accounts :
         LET s == [id |-> NewSessionId(sessions), active |-> FALSE, headers |-> headers]
         IN  Activate(t, Append(sessions, s), s.id)
    /\ lock' = t
    /\ outcome' = [outcome EXCEPT ![t] = "none"]
    /\ tried' = [tried EXCEPT ![t] = 0]
    /\ UNCHANGED <<websocket, websocket_token, refresh_task, chan, ovars>>

AddSession(t) == AddSessionFrom(t, OneAccount)

AddSessionAny(t) == AddSessionFrom(t, Accounts)

\* add_session while a session is active: under the lock, append, and return.
\* It has no suspension point, so any account's task can run it between two
\* steps of the caller.
AddSessionOnlyFrom(accounts) ==
    /\ lock = "free"
    /\ Len(sessions) < MaxSessions
    /\ active_session # 0
    /\ \E headers \in accounts :
         sessions' = Append(sessions, [id |-> NewSessionId(sessions), active |-> FALSE,
                                       headers |-> headers])
    /\ UNCHANGED <<cvars, active_session, websocket, websocket_token, running,
                   refresh_task, lock, tvars, ovars>>

AddSessionOnly == AddSessionOnlyFrom(OneAccount)

AddSessionOnlyAny == AddSessionOnlyFrom(Accounts)

\* _activate_session called on a session of the pool.
DirectActivate(t) ==
    /\ pc[t] = "idle"
    /\ \E s \in SessionIds(sessions) :
        /\ Activate(t, sessions, s)
        /\ outcome' = [outcome EXCEPT ![t] = "none"]
        /\ tried' = [tried EXCEPT ![t] = 0]
        /\ UNCHANGED <<websocket, websocket_token, refresh_task, lock, chan, ovars>>

\* _switch_to_next_session by task t, from the caller `from` ("direct", or
\* "init" for the ConnectionError handler of _initialize_connection,
\* "refresh" for _refresh_token_if_needed), the manager holding token held.
SwitchWith(t, from, held) ==
    /\ sw' = Switched(sessions, active_session)
    /\ IF SwitchTarget(sessions, active_session).raised
       THEN /\ Raise(t, "NoAvailableSessionsError")
            /\ UNCHANGED <<cvars, sessions, active_session, running>>
       ELSE /\ tried[t] < MaxFailovers
            /\ ActivateWith(t, sessions, SwitchTarget(sessions, active_session).next, held)
            /\ tried' = [tried EXCEPT ![t] = IF from = "init" THEN tried[t] + 1 ELSE 0]
            /\ outcome' = [outcome EXCEPT ![t] = "none"]
            /\ UNCHANGED lock

Switch(t, from) == SwitchWith(t, from, websocket_token)

\* _switch_to_next_session called directly.
DirectSwitch(t) ==
    /\ pc[t] = "idle"
    /\ Switch(t, "direct")
    /\ UNCHANGED <<websocket, websocket_token, refresh_task, chan, rxlog, expiry, bot, guard, runner>>

\* A manager that retries once more.
MayRetry_OnceMore(attempts_) == attempts_ <= MAX_RECONNECT_ATTEMPTS + 1

\* if attempts <= self.MAX_RECONNECT_ATTEMPTS, of _get_token and of
\* _handle_websocket_connection_error
MayRetry(attempts_) == attempts_ <= MAX_RECONNECT_ATTEMPTS

\* The token request of _get_token succeeds: _initialize_connection stores
\* the token, passes _get_image and awaits ws_connect.
TokenOk(t) ==
    /\ pc[t] = "token"
    /\ websocket_token' = req[t]
    /\ canvas' = _get_image(canvas)
    /\ pc' = [pc EXCEPT ![t] = "connect"]
    /\ attempts' = [attempts EXCEPT ![t] = 1]
    /\ req' = [req EXCEPT ![t] = 0]
    /\ UNCHANGED <<call, canvas0, sessions, active_session, websocket, running, refresh_task,
                   lock, chan, tried, outcome, ovars>>

\* The token request fails: _get_token sleeps and asks again, or after
\* MAX_RECONNECT_ATTEMPTS retries raises TokenError, which
\* _initialize_connection answers with stop() and a plain Exception.
TokenFail(t) ==
    /\ pc[t] = "token"
    /\ IF MayRetry(attempts[t])
       THEN /\ attempts' = [attempts EXCEPT ![t] = attempts[t] + 1]
            /\ req' = [req EXCEPT ![t] = active_session]
            /\ UNCHANGED <<running, refresh_task, lock, chan, pc, tried, outcome>>
       ELSE /\ running' = FALSE
            /\ refresh_task' = StopRefresh(refresh_task)
            /\ chan' = StopChannel(chan, websocket)
            /\ Raise(t, "Exception")
    /\ UNCHANGED <<cvars, sessions, active_session, websocket, websocket_token, ovars>>

\* _handle_websocket_connection_error for task t, whose channel state is ch
\* after leaving the `async with`: sleep and connect again while attempts <=
\* MAX_RECONNECT_ATTEMPTS, else ConnectionError, which _initialize_connection
\* answers with _switch_to_next_session.
ConnectionFailed(t, ch) ==
    /\ chan' = ch
    /\ IF MayRetry(attempts[t])
       THEN /\ attempts' = [attempts EXCEPT ![t] = attempts[t] + 1]
            /\ pc' = [pc EXCEPT ![t] = "connect"]
            /\ UNCHANGED <<cvars, sessions, active_session, running, lock, req, tried,
                           outcome, sw>>
       ELSE Switch(t, "init")
    /\ UNCHANGED <<websocket, websocket_token, refresh_task>>

\* ws_connect succeeds: self.websocket = websocket, then the authentication
\* command is being encoded and sent.
ConnectOk(t) ==
    /\ pc[t] = "connect"
    /\ chan' = [chan EXCEPT ![t] = "open"]
    /\ websocket' = t
    /\ pc' = [pc EXCEPT ![t] = "auth"]
    /\ UNCHANGED <<cvars, sessions, active_session, websocket_token, running, refresh_task,
                   lock, attempts, req, tried, outcome, ovars>>

\* ws_connect raises.
ConnectFail(t) ==
    /\ pc[t] = "connect"
    /\ ConnectionFailed(t, chan)
    /\ UNCHANGED <<rxlog, expiry, bot, guard, runner>>

\* The connect command is encoded and sent on self.websocket: the receive
\* loop starts.
AuthOk(t) ==
    /\ pc[t] = "auth"
    /\ websocket # "None"
    /\ chan[websocket] = "open"
    /\ pc' = [pc EXCEPT ![t] = "recv"]
    /\ tried' = [tried EXCEPT ![t] = 0]
    /\ UNCHANGED <<cvars, mvars, chan, attempts, req, outcome, ovars>>

\* Encoding the connect command or sending it raises.
AuthFail(t) ==
    /\ pc[t] = "auth"
    /\ ConnectionFailed(t, [chan EXCEPT ![t] = "closed"])
    /\ UNCHANGED <<rxlog, expiry, bot, guard, runner>>

\* One turn of the receive loop on a data frame f.
Receive(t) ==
    /\ pc[t] = "recv"
    /\ websocket # "None"
    /\ chan[websocket] = "open"
    /\ Len(rxlog) < MaxFrames
    /\ UNCHANGED <<expiry, bot, guard, runner>>
    /\ \E f \in Frames :
        /\ rxlog' = Append(rxlog, HandleFrame(f))
        /\ IF HandleFrame(f).raised
           THEN ConnectionFailed(t, [chan EXCEPT ![t] = "closed"])
           ELSE /\ canvas' = IF HandleFrame(f).image
                             THEN _handle_image(canvas, Decode(f).event)
                             ELSE canvas
                /\ UNCHANGED <<call, canvas0, mvars, tvars, sw>>

\* The receive loop gets a close frame, or receive() raises (the channel
\* failed or was closed under it).
ReceiveFail(t) ==
    /\ pc[t] = "recv"
    /\ ConnectionFailed(t, [chan EXCEPT ![t] = "closed"])
    /\ UNCHANGED <<rxlog, expiry, bot, guard, runner>>

\* What _is_token_expired can return or raise for the token the manager
\* holds: None, or a token of session 1.. whose payload the server chose.
ExpiryOutcomes(held) ==
    {_is_token_expired(token, now) :
        token \in IF held = 0 THEN {NoToken} ELSE Tokens \ {NoToken}, now \in Nows}

\* One pass of _token_refresh_loop on a running manager, up to the first
\* suspension of _refresh_token_if_needed: nothing if the token is not expired;
\* else the token is cleared and _switch_to_next_session is called, which
\* raises or activates the next session and starts its token request. What
\* the check or the switch raises leaves _refresh_token_if_needed (it catches
\* TokenError only) and is logged by the loop.
RefreshStep(t) ==
    /\ pc[t] = "idle"
    /\ running
    /\ \E r \in ExpiryOutcomes(websocket_token) :
         IF r.raised # "none"
         THEN /\ Raise(t, r.raised)
              /\ UNCHANGED <<cvars, sessions, active_session, running, websocket_token, sw>>
         ELSE /\ r.expired
              /\ websocket_token' = 0
              /\ SwitchWith(t, "refresh", 0)
    /\ UNCHANGED <<websocket, refresh_task, chan, rxlog, expiry, bot, guard, runner>>

\* stop()
Stop ==
    /\ running' = FALSE
    /\ refresh_task' = StopRefresh(refresh_task)
    /\ chan' = StopChannel(chan, websocket)
    /\ UNCHANGED <<cvars, sessions, active_session, websocket, websocket_token, lock,
                   pc, attempts, req, tried, outcome, ovars>>

\* What the manager does besides adding sessions.
Manage ==
    \/ \E t \in Tasks : AddSessionInvalid(t)
    \/ \E t \in Tasks : DirectActivate(t)
    \/ \E t \in Tasks : DirectSwitch(t)
    \/ \E t \in Tasks : TokenOk(t)
    \/ \E t \in Tasks : TokenFail(t)
    \/ \E t \in Tasks : ConnectOk(t)
    \/ \E t \in Tasks : ConnectFail(t)
    \/ \E t \in Tasks : AuthOk(t)
    \/ \E t \in Tasks : AuthFail(t)
    \/ \E t \in Tasks : Receive(t)
    \/ \E t \in Tasks : ReceiveFail(t)
    \/ \E t \in Tasks : RefreshStep(t)
    \/ Stop

\* The manager in a deployment with one account.
Next ==
    \/ \E t \in Tasks : AddSession(t)
    \/ AddSessionOnly
    \/ Manage

Spec == Init /\ [][Next]_vars

\* The manager in a deployment with two accounts.
NextPool ==
    \/ \E t \in Tasks : AddSessionAny(t)
    \/ AddSessionOnlyAny
    \/ Manage

SpecPool == Init /\ [][NextPool]_vars

\* The canvas operations alone, called on the renderer of a manager that is
\* not started.
SpecCanvas == Init /\ [][CanvasNext]_vars

----------------------------------------------------------------------------
(* The two coordinate conversions, called on their own and on each other's
   result. Neither touches the buffer. *)

\* Pixel ids around the ends of the first, a middle and the last row.
SampleIds ==
    {k * CANVAS_SIZE + d : k \in {0, 1, CANVAS_SIZE \div 2, CANVAS_SIZE - 1, CANVAS_SIZE},
                           d \in -3..3}
    \cap 1..NPixels

SampleCoordinates ==
    LET edge == {0, 1, 2, CANVAS_SIZE \div 2, CANVAS_SIZE - 2, CANVAS_SIZE - 1}
    IN  edge \X edge

Convert(op, origin, arg, res) ==
    /\ call' = [op |-> op, origin |-> origin, arg |-> arg, res |-> res,
                raised |-> "none", n |-> call.n + 1]
    /\ UNCHANGED <<canvas, canvas0, mvars, tvars, ovars>>

PixelIdToXy ==
    /\ call.n = 0
    /\ \E pixel_id \in SampleIds :
        Convert("_pixel_id_to_xy", <<>>, pixel_id, _pixel_id_to_xy(pixel_id))

XyToPixelId ==
    /\ call.n = 0
    /\ \E xy \in SampleCoordinates :
        Convert("_xy_to_pixel_id", <<>>, xy, _xy_to_pixel_id(xy[1], xy[2]))

\* _xy_to_pixel_id(*_pixel_id_to_xy(pixel_id))
XyBackToPixelId ==
    /\ call.n = 1
    /\ call.op = "_pixel_id_to_xy"
    /\ Convert("_xy_to_pixel_id", <<call.arg>>, call.res,
               _xy_to_pixel_id(call.res[1], call.res[2]))

\* _pixel_id_to_xy(_xy_to_pixel_id(x, y))
PixelIdBackToXy ==
    /\ call.n = 1
    /\ call.op = "_xy_to_pixel_id"
    /\ Convert("_pixel_id_to_xy", <<call.arg>>, call.res, _pixel_id_to_xy(call.res))

CodecNext == PixelIdToXy \/ XyToPixelId \/ XyBackToPixelId \/ PixelIdBackToXy

SpecCodec == Init /\ [][CodecNext]_vars

----------------------------------------------------------------------------
(* NotPXBot._paint_pixels: the template scan. The call is suspended at the GET
   of the template image ("get") and at the POST of one pixel ("post"); the
   loops between two awaits run as one step. The canvas is loaded before the
   scan starts and no one else writes it while the scan runs. *)

RedPx == <<255, 0, 0, 255>>
BlackPx == <<0, 0, 0, 255>>
ClearPx == <<255, 0, 0, 0>>

\* What the template URL answers with, decoded and converted to RGBA: the
\* pixels row by row. ok = FALSE is a body Image.open cannot identify.
TemplateImages ==
    {[ok |-> TRUE, w |-> 1, h |-> 1, px |-> <<RedPx>>],
     [ok |-> TRUE, w |-> 2, h |-> 2, px |-> <<RedPx, BlackPx, BlackPx, BlackPx>>],
     [ok |-> TRUE, w |-> 2, h |-> 2, px |-> <<RedPx, RedPx, RedPx, RedPx>>],
     [ok |-> TRUE, w |-> 2, h |-> 2, px |-> <<BlackPx, ClearPx, RedPx, RedPx>>],
     [ok |-> TRUE, w |-> 4, h |-> 1, px |-> <<RedPx, BlackPx, BlackPx, RedPx>>],
     [ok |-> TRUE, w |-> 3, h |-> 3, px |-> [k \in 1..9 |-> RedPx]],
     [ok |-> FALSE, w |-> 0, h |-> 0, px |-> <<>>]}

\* imageSize and (x, y) of the template the bot is subscribed to.
TemplateSizes == {1, 2}
TemplateOffsets == {<<0, 0>>, <<CANVAS_SIZE - 1, CANVAS_SIZE - 1>>}

\* template_array.reshape((template_size, template_size, 4)): only the number
\* of elements has to agree; the pixels keep their row-major order.
ReshapeTemplate(img, template_size) ==
    IF img.w * img.h * 4 # template_size * template_size * 4
    THEN [raised |-> "ValueError", px |-> <<>>]
    ELSE [raised |-> "none", px |-> img.px]

\* template_2d[ty, tx]
TemplatePixel(template_2d, template_size, ty, tx) ==
    template_2d[ty * template_size + tx + 1]

\* canvas_array.reshape((CANVAS_SIZE, CANVAS_SIZE, 4))[canvas_y, canvas_x]:
\* ValueError for a buffer of another length, IndexError for an index outside
\* [-CANVAS_SIZE, CANVAS_SIZE), a negative index counts from the end.
CanvasPixel(buf, canvas_x, canvas_y) ==
    IF BufLen(buf) # CANVAS_SIZE * CANVAS_SIZE * 4
    THEN [raised |-> "ValueError", px |-> <<>>]
    ELSE IF \/ canvas_x >= CANVAS_SIZE \/ canvas_x < -CANVAS_SIZE
            \/ canvas_y >= CANVAS_SIZE \/ canvas_y < -CANVAS_SIZE
    THEN [raised |-> "IndexError", px |-> <<>>]
    ELSE [raised |-> "none",
          px |-> PixelAt(buf, (canvas_y % CANVAS_SIZE) * CANVAS_SIZE
                              + (canvas_x % CANVAS_SIZE))]

\* The loops that stop only below zero charges.
OutOfCharges_BelowZero(charges) == charges < 0

\* if self._charges <= 0: break
OutOfCharges(charges) == charges <= 0

\* Every template pixel is taken as visible.
Transparent_Never(template_pixel) == FALSE

\* if template_pixel[3] == 0: continue
Transparent(template_pixel) == template_pixel[4] = 0

\* not np.array_equal(template_pixel[:3], canvas_pixel[:3])
Differs(template_pixel, canvas_pixel) ==
    SubSeq(template_pixel, 1, 3) # SubSeq(canvas_pixel, 1, 3)

\* A third retry is allowed, too.
RetryAllowed_Twice(attempts_) == attempts_ <= 2

\* if attempts <= 1
RetryAllowed(attempts_) == attempts_ <= 1

RECURSIVE ScanFrom(_, _, _, _)
\* The two for loops from template pixel (ty, tx) on, up to the next await:
\* "post" at the pixel to paint, "end" when the loops are left, "raised" when
\* indexing the canvas raised. When the inner loop breaks for want of charges
\* the outer loop breaks at its next test, the counter being the same.
ScanFrom(b, buf, ty, tx) ==
    IF ty >= b.template_size \/ OutOfCharges(b.charges)
    THEN [kind |-> "end", raised |-> "none", ty |-> ty, tx |-> tx]
    ELSE IF tx >= b.template_size
    THEN ScanFrom(b, buf, ty + 1, 0)
    ELSE LET template_pixel == TemplatePixel(b.template_2d, b.template_size, ty, tx)
             canvas_pixel == CanvasPixel(buf, b.template_x + tx, b.template_y + ty)
         IN  IF canvas_pixel.raised # "none"
             THEN [kind |-> "raised", raised |-> canvas_pixel.raised, ty |-> ty, tx |-> tx]
             ELSE IF Transparent(template_pixel)
             THEN ScanFrom(b, buf, ty, tx + 1)
             ELSE IF Differs(template_pixel, canvas_pixel.px)
             THEN [kind |-> "post", raised |-> "none", ty |-> ty, tx |-> tx]
             ELSE ScanFrom(b, buf, ty, tx + 1)

\* except Exception: the call retries itself after a sleep, or raises. The
\* exception of the last retry passes through the handlers of the calls
\* around it, which are not inside their try blocks.
Failed(b, error) ==
    IF RetryAllowed(b.attempts)
    THEN [b EXCEPT !.pc = "get", !.attempts = b.attempts + 1,
                   !.failures = b.failures + 1, !.error = error,
                   !.ty = 0, !.tx = 0, !.last = <<-1, -1>>, !.template_2d = <<>>]
    ELSE [b EXCEPT !.pc = "raised", !.failures = b.failures + 1, !.error = error]

\* The call goes on from template pixel (ty, tx) to its next await or its end.
Resume(b, buf, ty, tx) ==
    LET scan == ScanFrom(b, buf, ty, tx)
    IN  CASE scan.kind = "post" -> [b EXCEPT !.pc = "post", !.ty = scan.ty, !.tx = scan.tx]
          [] scan.kind = "end" -> [b EXCEPT !.pc = "done", !.ty = scan.ty, !.tx = scan.tx]
          [] OTHER -> Failed([b EXCEPT !.ty = scan.ty, !.tx = scan.tx], scan.raised)

\* The payload of the POST for the pixel the scan is at.
PaintPayload(b) ==
    [pixelId |-> _xy_to_pixel_id(b.template_x + b.tx, b.template_y + b.ty),
     newColor |-> rgba_to_hex(TemplatePixel(b.template_2d, b.template_size, b.ty, b.tx))]

\* After raise_for_status passed: self._charges -= 1
Charged(b) ==
    [b EXCEPT !.charges = b.charges - 1, !.requests = b.requests + 1,
              !.last = <<b.ty, b.tx>>, !.painted = PaintPayload(b)]

PaintStep(b) ==
    /\ bot' = b
    /\ UNCHANGED <<cvars, mvars, tvars, rxlog, sw, expiry, guard, runner>>

\* _get_status and the template subscription have set the charges and the
\* template; _paint_pixels(session) is called and sends its GET.
StartPainting ==
    /\ bot.pc = "idle"
    /\ \E charges \in 0..MaxCharges, img \in TemplateImages,
          template_size \in TemplateSizes, at \in TemplateOffsets :
        PaintStep([pc |-> "get", charges |-> charges, charges0 |-> charges,
                   image |-> img, template_size |-> template_size,
                   template_x |-> at[1], template_y |-> at[2],
                   attempts |-> 0, failures |-> 0, error |-> "none",
                   requests |-> 0, ty |-> 0, tx |-> 0, last |-> <<-1, -1>>,
                   template_2d |-> <<>>, painted |-> <<>>])

\* The GET answered: decode, convert, reshape, scan up to the first POST.
TemplateFetched ==
    /\ bot.pc = "get"
    /\ LET template_2d == ReshapeTemplate(bot.image, bot.template_size)
       IN  PaintStep(IF ~bot.image.ok THEN Failed(bot, "UnidentifiedImageError")
                     ELSE IF template_2d.raised # "none" THEN Failed(bot, template_2d.raised)
                     ELSE Resume([bot EXCEPT !.template_2d = template_2d.px], canvas, 0, 0))

\* The GET failed, or raise_for_status raised.
TemplateFetchFailed ==
    /\ bot.pc = "get"
    /\ PaintStep(Failed(bot, "ClientError"))

\* _paint_pixel: the POST was accepted and its body read; after the sleep the
\* scan goes on with the next template pixel.
PixelPainted ==
    /\ bot.pc = "post"
    /\ PaintStep(Resume(Charged(bot), canvas, bot.ty, bot.tx + 1))

\* The POST was accepted, but its body is no JSON or carries no balance.
PixelPaintedBadBody ==
    /\ bot.pc = "post"
    /\ PaintStep(Failed(Charged(bot), "TypeError"))

\* The POST failed, or raise_for_status raised: nothing is charged.
PaintRejected ==
    /\ bot.pc = "post"
    /\ PaintStep(Failed(bot, "ClientError"))

\* The canvas image is loaded while the painter is not scanning.
CanvasLoaded ==
    /\ bot.pc = "idle"
    /\ SetCanvas

PaintNext ==
    \/ CanvasLoaded
    \/ StartPainting
    \/ TemplateFetched
    \/ TemplateFetchFailed
    \/ PixelPainted
    \/ PixelPaintedBadBody
    \/ PaintRejected

SpecPaint == Init /\ [][PaintNext]_vars

----------------------------------------------------------------------------
(* DynamicCanvasRenderer._lock. set_canvas, update_canvas and set_pixel run
   their bodies inside `async with self._lock`. No body has a suspension
   point, so under the event loop an operation that finds the lock free runs
   to its end at once; here the other task may run between the acquisition
   and the body as well, and may find the lock held. *)

\* What the operations are called with while the lock is followed.
GuardArgs(op) ==
    CASE op = "set_pixel" -> {w \in PixelWrites : w[1] = 1}
      [] op = "update_canvas" ->
            {e \in PixelEvents : Len(e.data) = 1 /\ e.data[1][2] = <<1>>}
            \cup {e \in SquareEvents : e.data[1].pixel = 1 /\ e.data[1].type # "Pumpkin"}
      [] op = "set_canvas" -> {img \in Images : ~img.ok \/ img.kind = "solid"}

\* The body of operation op.
RunBody(op, buf, arg) ==
    CASE op = "set_pixel" -> set_pixel(buf, arg[1], arg[2])
      [] op = "update_canvas" -> update_canvas(buf, arg)
      [] op = "set_canvas" -> set_canvas(buf, arg)

\* A lock that is handed out while it is held.
Acquirable_Always(holder) == TRUE

\* asyncio.Lock.acquire returns at once when the lock is not held.
Acquirable(holder) == holder = "free"

\* An exit that gives the lock back only when the body returned.
Released_OnReturn(holder, raised) == IF raised = "none" THEN "free" ELSE holder

\* __aexit__ of `async with self._lock`: release(), however the body ended.
Released(holder, raised) == "free"

\* The canvas operations that were called and have not ended.
Pending == {t \in CanvasTasks : guard.at[t].pc # "out"}

\* Task t calls op and reaches `async with self._lock`: it takes the lock, or
\* waits for it.
Enter(t, op) ==
    /\ guard.at[t].pc = "out"
    /\ call.n + Cardinality(Pending) < MaxCanvasOps
    /\ guard' = IF Acquirable(guard.holder)
                THEN [holder |-> t, at |-> [guard.at EXCEPT ![t] = [pc |-> "inside", op |-> op]]]
                ELSE [guard EXCEPT !.at[t] = [pc |-> "waiting", op |-> op]]
    /\ UNCHANGED <<cvars, mvars, tvars, rxlog, sw, expiry, bot, runner>>

\* set_pixel with an id above the canvas returns before the lock.
SetPixelSkipped(t) ==
    /\ guard.at[t].pc = "out"
    /\ call.n + Cardinality(Pending) < MaxCanvasOps
    /\ call' = [op |-> "set_pixel", arg |-> <<NPixels + 1, Red>>,
                raised |-> set_pixel(canvas, NPixels + 1, Red).raised, n |-> call.n + 1]
    /\ canvas' = set_pixel(canvas, NPixels + 1, Red).buf
    /\ canvas0' = canvas
    /\ UNCHANGED <<mvars, tvars, ovars>>

\* The lock is released and the waiting task t is woken with it.
Granted(t) ==
    /\ guard.at[t].pc = "waiting"
    /\ Acquirable(guard.holder)
    /\ guard' = [holder |-> t, at |-> [guard.at EXCEPT ![t].pc = "inside"]]
    /\ UNCHANGED <<cvars, mvars, tvars, rxlog, sw, expiry, bot, runner>>

\* Task t is cancelled while it waits: acquire() raises CancelledError and
\* the lock was not taken.
CancelledWaiting(t) ==
    /\ guard.at[t].pc = "waiting"
    /\ guard' = [guard EXCEPT !.at[t] = [pc |-> "out", op |-> "none"]]
    /\ UNCHANGED <<cvars, mvars, tvars, rxlog, sw, expiry, bot, runner>>

\* The body of the operation of task t, and the exit from `async with`.
BodyAndExit(t) ==
    /\ guard.at[t].pc = "inside"
    /\ \E arg \in GuardArgs(guard.at[t].op) :
        LET res == RunBody(guard.at[t].op, canvas, arg)
        IN  /\ canvas' = res.buf
            /\ canvas0' = canvas
            /\ call' = [op |-> guard.at[t].op, arg |-> arg, raised |-> res.raised,
                        n |-> call.n + 1]
            /\ guard' = [holder |-> Released(guard.holder, res.raised),
                         at |-> [guard.at EXCEPT ![t] = [pc |-> "out", op |-> "none"]]]
    /\ UNCHANGED <<mvars, tvars, rxlog, sw, expiry, bot, runner>>

GuardNext ==
    \/ \E t \in CanvasTasks, op \in {"set_canvas", "update_canvas", "set_pixel"} : Enter(t, op)
    \/ \E t \in CanvasTasks : SetPixelSkipped(t)
    \/ \E t \in CanvasTasks : Granted(t)
    \/ \E t \in CanvasTasks : CancelledWaiting(t)
    \/ \E t \in CanvasTasks : BodyAndExit(t)

SpecGuard == Init /\ [][GuardNext]_vars

----------------------------------------------------------------------------
(* The singletons. __new__ of WebSocketManager and of DynamicCanvasRenderer
   returns the instance that exists, and Python then calls __init__ on it. A
   further account constructs them while no call into the manager is in
   flight. *)

\* WebSocketManager(...) a further time. With an argument of __init__
\* missing, as in run_notpxbot, binding the arguments raises TypeError before
\* the body of __init__ runs.
NewWebSocketManager ==
    /\ \A t \in Tasks : pc[t] = "idle"
    /\ \E complete \in BOOLEAN :
        IF complete
        THEN /\ sessions' = <<>>
             /\ active_session' = 0
             /\ websocket' = "None"
             /\ websocket_token' = 0
             /\ lock' = "free"
             /\ running' = FALSE
             /\ refresh_task' = "none"
        ELSE UNCHANGED mvars
    /\ UNCHANGED <<cvars, tvars, ovars>>

\* DynamicCanvasRenderer() a further time.
NewDynamicCanvasRenderer ==
    /\ canvas' = ZeroCanvas
    /\ guard' = GuardFree
    /\ UNCHANGED <<call, canvas0, mvars, tvars, rxlog, sw, expiry, bot, runner>>

\* One account's session from add_session to the end of its connection, the
\* canvas being loaded, and further accounts constructing the singletons.
AccountsNext ==
    \/ \E t \in Tasks : AddSession(t)
    \/ \E t \in Tasks : TokenOk(t)
    \/ \E t \in Tasks : TokenFail(t)
    \/ \E t \in Tasks : ConnectOk(t)
    \/ \E t \in Tasks : ConnectFail(t)
    \/ \E t \in Tasks : AuthOk(t)
    \/ \E t \in Tasks : AuthFail(t)
    \/ \E t \in Tasks : ReceiveFail(t)
    \/ SetCanvas
    \/ NewWebSocketManager
    \/ NewDynamicCanvasRenderer

SpecAccounts == Init /\ [][AccountsNext]_vars

----------------------------------------------------------------------------
(* NotPXBot.run: the per-account loop. A pass of `while True` is suspended in
   _proxy_checker ("proxy"), in _execute_main_loop ("main") or in the sleep of
   the handler ("cooldown"); "top" is the head of the loop. *)

RunStep(r) ==
    /\ runner' = r
    /\ UNCHANGED <<cvars, mvars, tvars, rxlog, sw, expiry, bot, guard>>

\* run(user_agent, proxy) is called, with a proxy or with None.
RunCalled ==
    /\ runner.pc = "created"
    /\ \E proxy \in BOOLEAN : RunStep([runner EXCEPT !.pc = "top", !.proxy = proxy])

\* The head of the loop with a proxy: `if proxy:` is entered and
\* _proxy_checker sends its request.
PassWithProxy ==
    /\ runner.pc = "top"
    /\ runner.passes < MaxPasses
    /\ runner.proxy
    /\ RunStep([runner EXCEPT !.pc = "proxy", !.passes = runner.passes + 1])

\* The head of the loop without a proxy: the body of `if proxy:`, which holds
\* the call of _execute_main_loop too, is skipped; the try block ends and the
\* loop is at its head again, without having awaited anything.
PassWithoutProxy ==
    /\ runner.pc = "top"
    /\ runner.passes < MaxPasses
    /\ ~runner.proxy
    /\ RunStep([runner EXCEPT !.passes = runner.passes + 1])

\* _proxy_checker returns: _execute_main_loop is called.
ProxyChecked ==
    /\ runner.pc = "proxy"
    /\ RunStep([runner EXCEPT !.pc = "main", !.mains = runner.mains + 1])

\* _proxy_checker raises: handle_error, then the sleep of 60 seconds.
ProxyCheckFailed ==
    /\ runner.pc = "proxy"
    /\ RunStep([runner EXCEPT !.pc = "cooldown", !.errors = runner.errors + 1])

\* _execute_main_loop returns after its own sleep.
MainLoopReturned ==
    /\ runner.pc = "main"
    /\ RunStep([runner EXCEPT !.pc = "top"])

\* _execute_main_loop raises: handle_error, then the sleep of 60 seconds.
MainLoopFailed ==
    /\ runner.pc = "main"
    /\ RunStep([runner EXCEPT !.pc = "cooldown", !.errors = runner.errors + 1])

\* The sleep of the handler is over.
CooldownOver ==
    /\ runner.pc = "cooldown"
    /\ RunStep([runner EXCEPT !.pc = "top"])

RunNext ==
    \/ RunCalled
    \/ PassWithProxy
    \/ PassWithoutProxy
    \/ ProxyChecked
    \/ ProxyCheckFailed
    \/ MainLoopReturned
    \/ MainLoopFailed
    \/ CooldownOver

SpecRun == Init /\ [][RunNext]_vars

\* The expiry check alone, on every token and clock reading.
SpecToken == Init /\ [][IsTokenExpired]_vars

----------------------------------------------------------------------------
(* Properties of the canvas operations (checked under SpecCanvas) *)

OutOfRange(pixel_id) == pixel_id < 1 \/ pixel_id > NPixels

AllIdsOutOfRange(data) ==
    \A g \in DOMAIN data : \A k \in DOMAIN data[g][2] : OutOfRange(data[g][2][k])

\* C1: for every pixel id outside [1, CANVAS_SIZE * CANVAS_SIZE], above the
\* range or <= 0, set_pixel(id, colour) and update_canvas with a pixel event
\* listing only such ids raise nothing and leave the buffer unchanged.
C1_OutOfRangeIsNoOp ==
    /\ (call.op = "set_pixel" /\ OutOfRange(call.arg[1]))
         => (call.raised = "none" /\ canvas = canvas0)
    /\ (call.op = "update_canvas" /\ call.arg.channel = "pixel:message"
          /\ AllIdsOutOfRange(call.arg.data))
         => (call.raised = "none" /\ canvas = canvas0)

----------------------------------------------------------------------------
(* Properties of the manager (checked under Spec) *)

ActivePositions == {k \in DOMAIN sessions : sessions[k].active}

\* C2: at most one session of the pool has active = TRUE, and when
\* active_session is set it is exactly that session.
C2_AtMostOneActive ==
    /\ Cardinality(ActivePositions) <= 1
    /\ active_session # 0 => {sessions[k].id : k \in ActivePositions} = {active_session}

\* A pool of three whose second session was activated after the first, and streams.
C2_Witness ==
    /\ Len(sessions) = 3
    /\ active_session = sessions[2].id
    /\ ~sessions[1].active
    /\ \E t \in Tasks : pc[t] = "recv"

\* C3: a _switch_to_next_session call on a pool of n >= 2 sessions whose
\* active session is at position i makes the session at position (i + 1) mod n
\* the active one; on an empty pool it raises NoAvailableSessionsError and
\* changes nothing of the manager.
C3_SwitchAdvances ==
    [][sw'.k # sw.k =>
        /\ Len(sessions) = 0 =>
             /\ \A t \in Tasks : outcome'[t] = "NoAvailableSessionsError"
             /\ UNCHANGED <<mvars, chan, canvas>>
        /\ Len(sessions) >= 2 =>
             \A i \in DOMAIN sessions :
                sessions[i].id = active_session =>
                    /\ active_session' = sessions[(i % Len(sessions)) + 1].id
                    /\ sessions'[(i % Len(sessions)) + 1].active
                    /\ Len(sessions') = Len(sessions)]_vars

\* [A, B, C]: the call made with C active wrapped around to A.
C3_Witness ==
    /\ Len(sessions) = 3
    /\ sw.n = 3 /\ sw.from = 2 /\ sw.to = 0 /\ ~sw.raised
    /\ active_session = sessions[1].id
    /\ sessions[1].active

\* C4: when the connections of every session keep failing, failover does not
\* go on cycling: a call never has more failovers behind it, with no channel
\* streaming in between, than the pool has other sessions to try.
C4_FailoverEndsAfterWrap ==
    \A t \in Tasks : pc[t] # "idle" => tried[t] < Len(sessions)

InConnection(t) == pc[t] \in {"connect", "auth", "recv"}

\* C5: when _switch_to_next_session raises NoAvailableSessionsError out of
\* connection initialisation, the manager is stopped: the running flag is false.
C5_ExhaustionStopsManager ==
    [][\A t \in Tasks :
        (InConnection(t) /\ pc'[t] = "idle" /\ outcome'[t] = "NoAvailableSessionsError")
            => running' = FALSE]_vars

\* C6: when the reconnect attempts of the channel are used up, the manager
\* stops itself: the running flag is false, the channel is closed, the refresh
\* task is not pending and the manager starts no further connection attempt.
C6_ReconnectExhaustionStops ==
    [][\A t \in Tasks :
        (InConnection(t) /\ attempts[t] > MAX_RECONNECT_ATTEMPTS /\ attempts'[t] # attempts[t])
            => /\ running' = FALSE
               /\ websocket' = "None" \/ chan'[websocket'] # "open"
               /\ refresh_task' # "pending"
               /\ pc'[t] = "idle"]_vars

\* C7: every event frame received is applied to the canvas when it is
\* received (so exactly once, and in the order of arrival), and no other
\* frame changes the canvas.
C7_EventsApplied ==
    [][Len(rxlog') = Len(rxlog) + 1 =>
        LET f == rxlog'[Len(rxlog')].frame
        IN  canvas' = IF f.kind = "push" THEN update_canvas(canvas, f.event).buf ELSE canvas]_vars

\* C8: the channel is opened only after the canvas was replaced by the base
\* image: the buffer is not the initial all-zero one once a channel is open.
C8_CanvasLoadedBeforeChannel ==
    \A t \in Tasks : pc[t] \in {"auth", "recv"} => canvas # ZeroCanvas

\* C9: once the receive loop runs on an open channel of a running manager,
\* the token-refresh task is started.
C9_RefreshTaskStarted ==
    \A t \in Tasks :
        (pc[t] = "recv" /\ running /\ rxlog # <<>>) => refresh_task = "pending"

\* C10: the keep-alive frame is answered with exactly one zero byte, the loop
\* goes on, and the frame is handed neither to the decoder nor to the event path.
C10_KeepAliveNotDecoded ==
    \A k \in DOMAIN rxlog :
        rxlog[k].frame.kind = "ping" =>
            /\ rxlog[k].sent = <<"\\x00">>
            /\ ~rxlog[k].raised
            /\ ~rxlog[k].decoded
            /\ ~rxlog[k].image

\* C11: a frame that is not the keep-alive byte and decodes to null (a control
\* frame) is a no-op: nothing is sent on the channel, the canvas is unchanged,
\* nothing is raised and the receive loop goes on.
C11_NullFrameIsNoOp ==
    [][(Len(rxlog') = Len(rxlog) + 1 /\ rxlog'[Len(rxlog')].frame.kind = "control") =>
        /\ rxlog'[Len(rxlog')].sent = <<>>
        /\ ~rxlog'[Len(rxlog')].raised
        /\ canvas' = canvas
        /\ pc' = pc
        /\ chan' = chan]_vars

\* C12: a frame the decoder fails on is swallowed: the channel stays open, the
\* canvas is unchanged, no reconnect attempt is consumed and the receive loop
\* goes on to the next frame.
C12_DecodeErrorSwallowed ==
    [][(Len(rxlog') = Len(rxlog) + 1 /\ rxlog'[Len(rxlog')].frame.kind = "garbage") =>
        /\ chan' = chan
        /\ canvas' = canvas
        /\ attempts' = attempts
        /\ pc' = pc]_vars

\* C13: add_session returns to its caller without waiting for connection
\* initialisation: the call, which holds _lock until it returns, is never
\* suspended inside connection initialisation or the receive loop.
C13_AddSessionDoesNotWait ==
    \A t \in Tasks : lock = t => pc[t] = "idle"

\* C17: a token fetch that exhausts its retries (TokenError) makes the manager
\* fail over to the next session and leaves it running.
C17_TokenErrorFailsOver ==
    [][\A t \in Tasks :
        (pc[t] = "token" /\ attempts[t] > MAX_RECONNECT_ATTEMPTS /\ pc'[t] # "connect"
           /\ attempts'[t] # attempts[t])
            => /\ running' = TRUE
               /\ pc'[t] \in {"token", "connect"}
               /\ active_session' # active_session]_vars

----------------------------------------------------------------------------
(* Square events at the edges (checked under SpecCanvas) *)

\* The pixels (0-based linear positions) at which buffers a and b of equal
\* length differ.
ChangedPixels(a, b) ==
    {p[1] \div 4 : p \in {q \in a.ov \cup b.ov : Byte(a, q[1]) # Byte(b, q[1])}}

\* The cells the loop of _paint_squares computes for one entry and that lie on
\* the canvas, as linear positions.
CellsOnCanvas(pixel_data) ==
    LET xy == _pixel_id_to_xy(pixel_data.pixel)
        x == xy[1] - (StampSize(pixel_data.type) \div 2)
        y == xy[2] - (StampSize(pixel_data.type) \div 2)
    IN  {(x + (i % CANVAS_SIZE)) + (y + (i \div CANVAS_SIZE)) * CANVAS_SIZE :
            i \in {j \in 0..(Len(StampColors(pixel_data.type)) - 1) :
                    /\ x + (j % CANVAS_SIZE) >= 0 /\ x + (j % CANVAS_SIZE) < CANVAS_SIZE
                    /\ y + (j \div CANVAS_SIZE) >= 0 /\ y + (j \div CANVAS_SIZE) < CANVAS_SIZE}}

\* C20: a square event of a known stamp type on the full-size canvas raises
\* nothing and modifies no pixel other than the cells of the stamp whose
\* computed column and row are on the canvas; cells off the canvas are skipped.
C20_SquareStaysOnCanvas ==
    (/\ call.op = "update_canvas"
     /\ call.arg.channel = "event:message"
     /\ BufLen(canvas0) = NPixels * 4
     /\ call.arg.data[1].pixel >= 1 /\ call.arg.data[1].pixel <= NPixels
     /\ StampSize(call.arg.data[1].type) # 0)
        => /\ call.raised = "none"
           /\ ChangedPixels(canvas0, canvas) \subseteq CellsOnCanvas(call.arg.data[1])

----------------------------------------------------------------------------
(* Properties of the expiry check (checked under SpecToken) *)

\* C18: _is_token_expired returns true exactly when no token is held or
\* now + 5 minutes >= the exp claim of the token, and raises nothing.
C18_ExpiredWithinMargin ==
    (expiry.n > 0 /\ expiry.token.kind \in {"none", "jwt"})
        => /\ expiry.raised = "none"
           /\ expiry.expired <=>
                (expiry.token.kind = "none" \/ expiry.now + 5 * 60 >= expiry.token.exp)

\* A token that expires exactly five minutes after the clock reading counts as expired.
C18_Witness ==
    /\ expiry.n > 0
    /\ expiry.token.kind = "jwt"
    /\ expiry.token.exp = expiry.now + 5 * 60
    /\ expiry.expired

\* C19: for a token whose expiry cannot be obtained (no JWT, or a payload
\* without a usable exp claim) the check returns expired and raises nothing.
C19_UnreadableTokenIsExpired ==
    (expiry.n > 0 /\ expiry.token.kind \in {"malformed", "noexp", "textexp"})
        => (expiry.expired /\ expiry.raised = "none")

----------------------------------------------------------------------------
(* stop() *)

\* What holds of the manager after stop(): not running, no refresh task
\* pending, and the channel self.websocket refers to is not open.
Stopped ==
    /\ running = FALSE
    /\ refresh_task # "pending"
    /\ websocket # "None" => chan[websocket] # "open"

\* C15: after stop() the manager is stopped (running flag false, a pending
\* refresh task cancelled, an open channel closed), and a further stop() in
\* that state changes nothing of the manager; stop() raises nothing in any state.
C15_StopIdempotent ==
    [][Stop =>
        /\ Stopped'
        /\ StopRefresh(refresh_task') = refresh_task'
        /\ StopChannel(chan', websocket') = chan'
        /\ UNCHANGED <<sessions, active_session, websocket, websocket_token, lock>>]_vars

\* stop() was called while the receive loop ran on its open channel.
C15_Witness ==
    /\ Stopped
    /\ websocket # "None"
    /\ chan[websocket] = "closed"
    /\ pc[websocket] = "recv"

----------------------------------------------------------------------------
(* The pool (checked under SpecPool) *)

\* C14: add_session is idempotent on the identity of a session: adding the
\* credentials of a session of the pool again leaves the pool as it is, so no
\* two sessions of the pool carry the same credentials.
C14_AddIsIdempotent ==
    \A i, j \in DOMAIN sessions :
        sessions[i].headers = sessions[j].headers => i = j

----------------------------------------------------------------------------
(* Token refresh (checked under Spec) *)

\* C16: on a running manager whose token is expired, the refresh step leaves
\* the manager fetching a fresh token for the session then active, whatever
\* the size of the pool: it does not end with the token cleared and no
\* request for a new one under way.
C16_RefreshFetchesToken ==
    [][\A t \in Tasks :
        (RefreshStep(t) /\ websocket_token' = 0)
            => /\ pc'[t] = "token"
               /\ req'[t] = active_session']_vars

----------------------------------------------------------------------------
(* What the canvas writers paint (checked under SpecCanvas) *)

\* The square event is one entry of a known type, centred at least a stamp
\* away from every edge of the full-size canvas.
WellInside(pixel_data) ==
    LET xy == _pixel_id_to_xy(pixel_data.pixel)
    IN  /\ pixel_data.pixel >= 1 /\ pixel_data.pixel <= NPixels
        /\ StampSize(pixel_data.type) # 0
        /\ xy[1] >= PUMPKIN_SIZE /\ xy[1] < CANVAS_SIZE - PUMPKIN_SIZE
        /\ xy[2] >= PUMPKIN_SIZE /\ xy[2] < CANVAS_SIZE - PUMPKIN_SIZE

\* The N-by-N block of a stamp: its cells as linear positions.
StampBlock(pixel_data) ==
    LET xy == _pixel_id_to_xy(pixel_data.pixel)
        N == StampSize(pixel_data.type)
    IN  {(xy[1] - (N \div 2) + dx) + (xy[2] - (N \div 2) + dy) * CANVAS_SIZE :
            dx \in 0..(N - 1), dy \in 0..(N - 1)}

\* C21: a square event with stamp side N centred on a pixel well inside the
\* canvas modifies only pixels of the N-by-N block whose top-left corner is
\* (x - N div 2, y - N div 2), and pattern cell i is written at column offset
\* i mod N and row offset i div N of that block.
C21_StampIsSquareBlock ==
    (/\ call.op = "update_canvas"
     /\ call.arg.channel = "event:message"
     /\ BufLen(canvas0) = NPixels * 4
     /\ WellInside(call.arg.data[1]))
        => LET pixel_data == call.arg.data[1]
               xy == _pixel_id_to_xy(pixel_data.pixel)
               N == StampSize(pixel_data.type)
               colors == StampColors(pixel_data.type)
           IN  /\ call.raised = "none"
               /\ ChangedPixels(canvas0, canvas) \subseteq StampBlock(pixel_data)
               /\ \A i \in 0..(N * N - 1) :
                    PixelAt(canvas, (xy[1] - (N \div 2) + (i % N))
                                    + (xy[2] - (N \div 2) + (i \div N)) * CANVAS_SIZE)
                        = _hex_to_rgb(colors[i + 1]).rgb \o <<255>>

\* C22: after update_canvas applied a pixel event, every in-range pixel id
\* listed under a colour c other than the sentinel has RGBA (r, g, b of c, 255),
\* and every pixel the event does not list keeps the value it had.
C22_PixelEventPaintsListed ==
    (/\ call.op = "update_canvas"
     /\ call.arg.channel = "pixel:message"
     /\ call.raised = "none"
     /\ BufLen(canvas0) = NPixels * 4)
        => LET data == call.arg.data
           IN  /\ \A g \in DOMAIN data : \A k \in DOMAIN data[g][2] :
                    (/\ data[g][1] # Hex("1", "7", "1", "F", "2", "A")
                     /\ data[g][2][k] >= 1 /\ data[g][2][k] <= NPixels)
                        => PixelAt(canvas, data[g][2][k] - 1)
                             = _hex_to_rgb(data[g][1]).rgb \o <<255>>
               /\ \A p \in ChangedPixels(canvas0, canvas) :
                    \E g \in DOMAIN data : \E k \in DOMAIN data[g][2] : data[g][2][k] = p + 1

\* C23: a pixel event whose only colour group is the sentinel "#171F2A"
\* leaves the whole canvas unchanged and raises nothing, whatever ids it lists.
C23_SentinelNeverPainted ==
    (/\ call.op = "update_canvas"
     /\ call.arg.channel = "pixel:message"
     /\ \A g \in DOMAIN call.arg.data : call.arg.data[g][1] = Hex("1", "7", "1", "F", "2", "A"))
        => (canvas = canvas0 /\ call.raised = "none")

\* The sentinel group listed pixel 1 of a canvas on which pixel 1 was painted
\* before, and an id above the range.
C23_Witness ==
    /\ call.op = "update_canvas"
    /\ call.arg.channel = "pixel:message"
    /\ call.arg.data = <<<<DYNAMITE_COLOR, <<1>>>>>>
    /\ call.n = 2
    /\ PixelAt(canvas, 0) = <<255, 0, 0, 255>>

\* Pixels (x, y) of an image that are looked at: its corners, and every
\* position that held a painted byte in the buffer before.
LookedAt(img, before) ==
    {xy \in ({0, img.w - 1} \X {0, img.h - 1})
            \cup {<<(p[1] \div 4) % img.w, (p[1] \div 4) \div img.w>> : p \in before.ov} :
        xy[1] < img.w /\ xy[2] < img.h}

\* C24: after set_canvas(image) returned, get_canvas has 4 * w * h bytes and
\* pixel (x, y) of the image is at bytes 4 * (y * w + x) .. + 3 as R, G, B, A
\* (alpha 255 for an image without alpha), whatever the buffer held before.
C24_SetCanvasReplaces ==
    (call.op = "set_canvas" /\ call.raised = "none")
        => LET img == call.arg
           IN  /\ BufLen(get_canvas) = 4 * img.w * img.h
               /\ \A xy \in LookedAt(img, canvas0) :
                    PixelAt(get_canvas, xy[2] * img.w + xy[1])
                        = ConvertRGBA(ImagePixel(img, xy[1], xy[2]))
               /\ \A p \in get_canvas.ov : p[1] \div 4 < img.w * img.h

\* The solid-black image replaced a buffer in which pixel 1 was red.
C24_Witness ==
    /\ call.op = "set_canvas"
    /\ call.raised = "none"
    /\ call.arg.kind = "solid"
    /\ PixelAt(canvas0, 0) = <<255, 0, 0, 255>>
    /\ PixelAt(get_canvas, 0) = <<0, 0, 0, 255>>
    /\ PixelAt(get_canvas, NPixels - 1) = <<0, 0, 0, 255>>

\* C25: on the canvas the two conversions are inverses. An id in
\* 1..CANVAS_SIZE * CANVAS_SIZE converts to coordinates in 0..CANVAS_SIZE - 1
\* that convert back to the same id; coordinates in 0..CANVAS_SIZE - 1 convert
\* to an id in 1..CANVAS_SIZE * CANVAS_SIZE that converts back to the same
\* coordinates.
C25_ConversionsAreInverse ==
    /\ (call.op = "_pixel_id_to_xy" /\ call.n = 1)
            => call.res \in (0..(CANVAS_SIZE - 1)) \X (0..(CANVAS_SIZE - 1))
    /\ (call.op = "_xy_to_pixel_id" /\ call.n = 1) => call.res \in 1..NPixels
    /\ call.n = 2 => call.res = call.origin[1]

\* Both round trips were made at the far corner of the canvas.
C25_Witness ==
    /\ call.n = 2
    /\ \/ call.op = "_xy_to_pixel_id" /\ call.res = NPixels
       \/ call.op = "_pixel_id_to_xy" /\ call.res = <<0, CANVAS_SIZE - 1>>

----------------------------------------------------------------------------
(* Properties of the template scan (checked under SpecPaint) *)

Scanning == bot.pc # "idle"

\* The position of template pixel (ty, tx) in row-major order.
RowMajor(b, tytx) == tytx[1] * b.template_size + tytx[2]

\* C26: no paint request is sent while the charge counter is <= 0; within one
\* run the requests go through the template in row-major order; the counter is
\* never negative; and over the whole call, retries included, the accepted
\* requests are no more than the charges at the start. A run that used up the
\* charges has ended without a further request.
C26_ScanBoundedByCharges ==
    Scanning
        => /\ bot.charges >= 0
           /\ bot.requests <= bot.charges0
           /\ bot.charges = bot.charges0 - bot.requests
           /\ bot.pc = "post"
                => /\ bot.charges > 0
                   /\ RowMajor(bot, bot.last) < RowMajor(bot, <<bot.ty, bot.tx>>)

\* Four pixels differ and there were two charges: the scan ended after the
\* second request, in the first row.
C26_Witness ==
    /\ Scanning
    /\ bot.pc = "done"
    /\ bot.failures = 0
    /\ bot.charges0 = 2
    /\ bot.charges = 0
    /\ bot.requests = 2
    /\ bot.last = <<0, 1>>
    /\ bot.template_size = 2

\* The template pixels that are not transparent and whose RGB is not the RGB
\* of the canvas pixel under them.
ToPaint(b, buf) ==
    {tytx \in (0..(b.template_size - 1)) \X (0..(b.template_size - 1)) :
        /\ TemplatePixel(b.template_2d, b.template_size, tytx[1], tytx[2])[4] # 0
        /\ SubSeq(TemplatePixel(b.template_2d, b.template_size, tytx[1], tytx[2]), 1, 3)
             # SubSeq(PixelAt(buf, (b.template_y + tytx[1]) * CANVAS_SIZE
                                   + b.template_x + tytx[2]), 1, 3)}

Min(a, b) == IF a <= b THEN a ELSE b

\* C27: a scan that ended without any failure has sent min(charges at the
\* start, number of template pixels to paint) requests, and the charge counter
\* has gone down by exactly that number.
C27_RequestsAreTheDifference ==
    (Scanning /\ bot.pc = "done" /\ bot.failures = 0)
        => /\ bot.requests = Min(bot.charges0, Cardinality(ToPaint(bot, canvas)))
           /\ bot.charges = bot.charges0 - Min(bot.charges0, Cardinality(ToPaint(bot, canvas)))

\* A 2 x 2 template whose top-left pixel alone differs, five charges: one
\* request, four charges left.
C27_Witness ==
    /\ Scanning
    /\ bot.pc = "done"
    /\ bot.failures = 0
    /\ bot.template_size = 2
    /\ bot.template_2d = <<RedPx, BlackPx, BlackPx, BlackPx>>
    /\ BufLen(canvas) = NPixels * 4
    /\ ToPaint(bot, canvas) = {<<0, 0>>}
    /\ bot.charges0 = 5
    /\ bot.requests = 1
    /\ bot.charges = 4

\* C28: once a paint request for canvas pixel p with colour c was accepted,
\* the raster holds c at p (as set_pixel(p, c) leaves it) before the scan
\* compares its next template pixel.
C28_PaintedPixelPredicted ==
    (Scanning /\ bot.painted # <<>> /\ BufLen(canvas) = NPixels * 4)
        => PixelAt(canvas, bot.painted.pixelId - 1)
             = _hex_to_rgb(bot.painted.newColor).rgb \o <<255>>

\* C29: every failure of a run starts the scan again from the beginning until
\* three runs (attempts 0, 1, 2) have failed; the third failure is raised to
\* the caller. No call runs the scan a fourth time and no call ends normally
\* after three failures.
C29_ThreeRunsThenRaise ==
    Scanning
        => /\ bot.attempts <= 2
           /\ bot.failures = bot.attempts + (IF bot.pc = "raised" THEN 1 ELSE 0)
           /\ bot.pc = "raised" => (bot.attempts = 2 /\ bot.failures = 3)
           /\ bot.failures = 3 => bot.pc = "raised"
           /\ bot.pc = "get" => (bot.ty = 0 /\ bot.tx = 0 /\ bot.last = <<-1, -1>>)

\* Three runs were rejected at their first POST and the call raised.
C29_Witness ==
    /\ Scanning
    /\ bot.pc = "raised"
    /\ bot.failures = 3
    /\ bot.attempts = 2
    /\ bot.error = "ClientError"
    /\ bot.template_2d # <<>>
    /\ bot.requests = 0

\* C30: when the template image that is fetched is not template_size pixels
\* wide and high, the step that receives it counts no failure and the scan
\* goes on over template_size x template_size pixels.
C30_MismatchIsResampled ==
    [][(/\ TemplateFetched
        /\ bot.image.ok
        /\ (bot.image.w # bot.template_size \/ bot.image.h # bot.template_size)
        /\ BufLen(canvas) = NPixels * 4
        /\ bot.template_x + bot.template_size <= CANVAS_SIZE)
            => (/\ bot'.failures = bot.failures
                /\ Len(bot'.template_2d) = bot.template_size * bot.template_size)]_vars

----------------------------------------------------------------------------
(* Further properties of the canvas operations (checked under SpecCanvas) *)

\* C34: update_canvas applies an event wholly or not at all: when the call
\* raises, the buffer is what it was before the call.
C34_UpdateIsAllOrNothing ==
    (call.op = "update_canvas" /\ call.raised # "none") => canvas = canvas0

\* C40: after any sequence of set_canvas, update_canvas and set_pixel calls
\* the buffer has CANVAS_SIZE * CANVAS_SIZE * 4 bytes.
C40_BufferKeepsItsLength ==
    BufLen(get_canvas) = CANVAS_SIZE * CANVAS_SIZE * 4

----------------------------------------------------------------------------
(* Further properties of the manager (checked under Spec and SpecPool) *)

\* C37: while the running flag is false, as stop() leaves it, no step of the
\* manager opens a channel, and the flag becomes true again only by add_session
\* or by a call of _activate_session or _switch_to_next_session from outside.
C37_StoppedStaysStopped ==
    [][~running =>
        /\ \A t \in Tasks : chan'[t] = "open" => chan[t] = "open"
        /\ running' => \E t \in Tasks :
                        \/ AddSessionFrom(t, Accounts)
                        \/ DirectActivate(t)
                        \/ DirectSwitch(t)]_vars

\* C38: when the connect command is sent after a failover, the token in it was
\* fetched with the credentials of the session that is active at that moment.
C38_TokenOfActiveSession ==
    [][\A t \in Tasks :
        (AuthOk(t) /\ tried[t] > 0 /\ websocket_token # 0)
            => sessions[websocket_token].headers = sessions[active_session].headers]_vars

\* C39: self.websocket is not None only while the channel it refers to is
\* open.
C39_HandleOnlyWhileOpen ==
    websocket # "None" => chan[websocket] = "open"

\* C36: _get_token makes at most MAX_RECONNECT_ATTEMPTS + 1 requests and then
\* raises; within one activation _connect_websocket opens the channel at most
\* MAX_RECONNECT_ATTEMPTS + 1 times and then raises ConnectionError (answered
\* by the failover); every new request or opening counts one attempt more,
\* also after a channel that was established and streamed.
C36_AttemptCeiling ==
    [][\A t \in Tasks :
        /\ pc'[t] \in {"token", "connect", "auth", "recv"}
              => attempts'[t] \in 1..(MAX_RECONNECT_ATTEMPTS + 1)
        /\ (TokenFail(t) /\ pc'[t] = "token")
              => attempts'[t] = attempts[t] + 1
        /\ (/\ ConnectFail(t) \/ AuthFail(t) \/ ReceiveFail(t) \/ Receive(t)
            /\ pc'[t] = "connect"
            /\ sw' = sw)
              => attempts'[t] = attempts[t] + 1
        /\ (pc[t] = "token" /\ attempts[t] = MAX_RECONNECT_ATTEMPTS + 1 /\ TokenFail(t))
              => (pc'[t] = "idle" /\ outcome'[t] = "Exception")
        /\ (/\ pc[t] \in {"connect", "auth", "recv"}
            /\ attempts[t] = MAX_RECONNECT_ATTEMPTS + 1
            /\ ConnectFail(t) \/ AuthFail(t) \/ ReceiveFail(t))
              => sw' # sw]_vars

\* The fourth channel of one activation streams, after a frame was received.
C36_Witness ==
    \E t \in Tasks :
        /\ pc[t] = "recv"
        /\ attempts[t] = MAX_RECONNECT_ATTEMPTS + 1
        /\ Len(rxlog) > 0

----------------------------------------------------------------------------
(* Properties of the canvas lock (checked under SpecGuard) *)

InsideGuard == {t \in CanvasTasks : guard.at[t].pc = "inside"}

\* C33: set_canvas, update_canvas and set_pixel exclude each other: at no
\* moment are two tasks inside the bodies of two of these operations, and the
\* task that is inside is the one that holds the lock.
C33_CanvasOperationsExclusive ==
    /\ Cardinality(InsideGuard) <= 1
    /\ \A t \in InsideGuard : guard.holder = t

\* One task is inside its operation while the other waits for the lock.
C33_Witness ==
    /\ guard.at["receiver"] = [pc |-> "inside", op |-> "update_canvas"]
    /\ guard.at["painter"] = [pc |-> "waiting", op |-> "set_pixel"]

\* C35: the lock is given back on every way out of set_canvas, update_canvas
\* and set_pixel: whenever no task is inside one of them the lock is free,
\* also after an operation raised or a waiting task was cancelled, so a later
\* operation can take it.
C35_GuardAlwaysReleased ==
    /\ InsideGuard = {} => guard.holder = "free"
    /\ \A t \in CanvasTasks : guard.holder = t => guard.at[t].pc = "inside"

\* An operation raised and, after it, the task that waited is inside.
C35_Witness ==
    /\ call.n > 0
    /\ call.raised # "none"
    /\ guard.holder = "painter"
    /\ guard.at["receiver"].pc = "out"

----------------------------------------------------------------------------
(* Properties of the singletons (checked under SpecAccounts) *)

\* C31: obtaining the manager or the renderer again leaves their state as it
\* is: constructing WebSocketManager(...) changes neither the pool, the active
\* session, the channel handle nor the token, and constructing
\* DynamicCanvasRenderer() does not change the buffer.
C31_SingletonsKeepState ==
    [][/\ NewWebSocketManager
            => UNCHANGED <<sessions, active_session, websocket, websocket_token>>
       /\ NewDynamicCanvasRenderer => canvas' = canvas]_vars

----------------------------------------------------------------------------
(* Properties of the per-account loop (checked under SpecRun) *)

\* C32: every pass of the per-account loop runs the main loop, with a proxy
\* or without one, unless the proxy check raised; an error of the proxy check
\* or of the main loop is followed by the cooldown and a further pass, and the
\* loop never ends.
C32_EveryPassRunsMainLoop ==
    /\ runner.pc = "top" => runner.passes <= runner.mains + runner.errors
    /\ runner.pc \in {"created", "top", "proxy", "main", "cooldown"}

====
